---- MODULE Spec2Model ----
(***************************************************************************)
(* Model of src/index.ts: the resumable knowledge-base pipeline            *)
(*   main = restoreCache; fetchAllContent; generateListOfCategories;       *)
(*          labelFilesFromCategories                                       *)
(* A text is a sequence of one-character strings.  The remote blob is the  *)
(* text saveCache uploads (JSONL); restoreCache splits and parses it.      *)
(***************************************************************************)
EXTENDS Integers, Sequences, FiniteSets, TLC

\* ---------------------------------------------------------------- bounds
\* Number of documents the content store holds.
NumDocs == 12
\* The small value of the processing cap (the large one is NumDocs).
SmallCap == 2
\* Number of process starts (runs of main) explored.
MaxRuns == 2
\* Longest list of names the extraction capability returns, apart from the
\* one list that is longer than MAX_CATEGORIES.
MaxNames == 3
\* Longest list of passages a document is given when assembly is run alone.
MaxPassages == 3
\* Longest category name given to the slug replaces when run alone.
MaxNameLen == 4

\* ------------------------------------------------------ program constants
MaxEntries == 2
MaxContentLen == 2

MAX_CATEGORIES == 250
\* the literal 10 of `newProcessedFiles++ % 10 === 0`
CHECKPOINT_EVERY == 10

\* ------------------------------------------------------------ characters
NL == "\n"
QT == "\""
BS == "\\"
TAB == "\t"
SP == " "
Whitespace == {SP, TAB, NL}
AlnumChars == {"A", "b", "1"}

\* ------------------------------------------------------------------ JSON
\* Mutant: nothing is escaped.
EscapeCharNone(c) == <<c>>

\* JSON.stringify of a string: the characters that must be escaped.
EscapeChar(c) ==
  IF c = QT THEN <<BS, QT>>
  ELSE IF c = BS THEN <<BS, BS>>
  ELSE IF c = NL THEN <<BS, "n">>
  ELSE IF c = TAB THEN <<BS, "t">>
  ELSE <<c>>

RECURSIVE Escape(_)
Escape(s) == IF s = <<>> THEN <<>> ELSE EscapeChar(Head(s)) \o Escape(Tail(s))

JsonString(s) == <<QT>> \o Escape(s) \o <<QT>>

KeyPrefix == <<"{", QT, "k", "e", "y", QT, ":">>
ContentPrefix == <<",", QT, "c", "o", "n", "t", "e", "n", "t", QT, ":">>
ObjectSuffix == <<"}">>

\* JSON.stringify({ key, content })
Stringify(e) ==
  KeyPrefix \o JsonString(e.key) \o ContentPrefix \o JsonString(e.content)
            \o ObjectSuffix

ParseFail == [ok |-> FALSE, val |-> <<>>, next |-> 0]

\* Reads a JSON string body from position i (just after the opening quote)
\* up to its closing quote; a raw control character or a bad escape throws.
RECURSIVE ScanString(_, _, _)
ScanString(line, i, acc) ==
  IF i > Len(line) THEN ParseFail
  ELSE IF line[i] = QT THEN [ok |-> TRUE, val |-> acc, next |-> i + 1]
  ELSE IF line[i] = BS THEN
    IF i + 1 > Len(line) THEN ParseFail
    ELSE IF line[i + 1] = "n" THEN ScanString(line, i + 2, Append(acc, NL))
    ELSE IF line[i + 1] = "t" THEN ScanString(line, i + 2, Append(acc, TAB))
    ELSE IF line[i + 1] \in {QT, BS}
      THEN ScanString(line, i + 2, Append(acc, line[i + 1]))
    ELSE ParseFail
  ELSE IF line[i] \in {NL, TAB} THEN ParseFail
  ELSE ScanString(line, i + 1, Append(acc, line[i]))

HasAt(line, i, lit) ==
  /\ i + Len(lit) - 1 <= Len(line)
  /\ SubSeq(line, i, i + Len(lit) - 1) = lit

\* const { key, content } = JSON.parse(line), for the lines the model's
\* blobs hold: an object written by Stringify, or text JSON.parse rejects.
ParseLine(line) ==
  LET bad == [ok |-> FALSE, key |-> <<>>, content |-> <<>>]
      kStart == Len(KeyPrefix) + 1
  IN IF ~(HasAt(line, 1, KeyPrefix) /\ HasAt(line, kStart, <<QT>>)) THEN bad
     ELSE LET k == ScanString(line, kStart + 1, <<>>)
          IN IF ~k.ok THEN bad
             ELSE LET cStart == k.next + Len(ContentPrefix)
                  IN IF ~(HasAt(line, k.next, ContentPrefix)
                          /\ HasAt(line, cStart, <<QT>>)) THEN bad
                     ELSE LET c == ScanString(line, cStart + 1, <<>>)
                          IN IF c.ok /\ HasAt(line, c.next, ObjectSuffix)
                                /\ c.next = Len(line)
                               THEN [ok |-> TRUE, key |-> k.val,
                                     content |-> c.val]
                               ELSE bad

\* Array.prototype.join with a separator text
RECURSIVE Join(_, _)
Join(parts, sep) ==
  IF parts = <<>> THEN <<>>
  ELSE IF Len(parts) = 1 THEN parts[1]
  ELSE parts[1] \o sep \o Join(Tail(parts), sep)

\* String.prototype.split("\n"): the pieces between the newlines
Split(s) ==
  LET P == {i \in 1..Len(s) : s[i] = NL}
      n == Cardinality(P)
      pos(j) == CHOOSE i \in P : Cardinality({x \in P : x < i}) = j - 1
      first(j) == IF j = 1 THEN 1 ELSE pos(j - 1) + 1
      last(j) == IF j = n + 1 THEN Len(s) ELSE pos(j) - 1
  IN [j \in 1..(n + 1) |-> SubSeq(s, first(j), last(j))]

\* ------------------------------------------------- the Map fileContentCache
\* A Map in insertion order: a sequence of [key, content] with unique keys.
CacheKeys(cache) == {cache[i].key : i \in 1..Len(cache)}

\* Mutant: the lookup compares the contents, not the keys.
CacheHasByContent(cache, k) == k \in {cache[i].content : i \in 1..Len(cache)}

CacheHas(cache, k) == k \in CacheKeys(cache)

\* Map.prototype.set: overwrite in place, or append a new key
CacheSet(cache, k, c) ==
  IF CacheHas(cache, k)
    THEN [i \in 1..Len(cache) |->
            IF cache[i].key = k THEN [key |-> k, content |-> c] ELSE cache[i]]
    ELSE Append(cache, [key |-> k, content |-> c])

\* The text saveCache uploads.
CacheFileContent(cache) ==
  Join([i \in 1..Len(cache) |-> Stringify(cache[i])], <<NL>>)

\* Mutant: no `if (line)`, an empty line goes to JSON.parse.
RECURSIVE RestoreLinesNoBlankCheck(_, _, _)
RestoreLinesNoBlankCheck(lines, i, cache) ==
  IF i > Len(lines) THEN [cache |-> cache, threw |-> FALSE]
  ELSE LET r == ParseLine(lines[i])
       IN IF ~r.ok THEN [cache |-> cache, threw |-> TRUE]
          ELSE RestoreLinesNoBlankCheck(lines, i + 1,
                                        CacheSet(cache, r.key, r.content))

\* The loop of restoreCache over the lines: stops at the first line that
\* throws, keeping what the earlier lines have set.
RECURSIVE RestoreLines(_, _, _)
RestoreLines(lines, i, cache) ==
  IF i > Len(lines) THEN [cache |-> cache, threw |-> FALSE]
  ELSE IF lines[i] = <<>> THEN RestoreLines(lines, i + 1, cache)
  ELSE LET r == ParseLine(lines[i])
       IN IF ~r.ok THEN [cache |-> cache, threw |-> TRUE]
          ELSE RestoreLines(lines, i + 1, CacheSet(cache, r.key, r.content))

\* ------------------------------------------------------ the content store
Digit == <<"0", "1", "2", "3", "4", "5", "6", "7", "8", "9">>

DocIds == 1..NumDocs

\* file.key of the document with id k
DocKey(k) == <<"f", Digit[(k \div 10) + 1], Digit[(k % 10) + 1]>>

File(k) == [id |-> k, key |-> DocKey(k)]

NoPosition == [has |-> FALSE, position |-> 0]
At(n) == [has |-> TRUE, position |-> n]

Passage(c, m) == [content |-> c, meta |-> m]

\* What client.list.filePassages({ id }).collect() returns: the passages of
\* a document, in the store's order.
FilePassages(id) ==
  IF id % 3 = 0 THEN << Passage(<<"A">>, NoPosition) >>
  ELSE IF id % 3 = 1
    THEN << Passage(<<"c">>, At(2)), Passage(<<"A", QT>>, At(0)),
            Passage(<<"b">>, At(1)) >>
  ELSE << Passage(<<"x", BS>>, At(1)), Passage(<<"y">>, NoPosition),
          Passage(<<"z", SP>>, At(0)) >>

\* The listings client.list.files(...).collect() can return: the documents
\* by updatedAt, which changes between runs.
Ascending == [i \in 1..NumDocs |-> File(i)]
Descending == [i \in 1..NumDocs |-> File(NumDocs + 1 - i)]
Listings == {Ascending, Descending}

\* ------------------------------------------------------ passage assembly
\* Mutant: a missing position is below every position.
PositionOfLowest(p) == IF p.meta.has THEN p.meta.position ELSE -1000

\* a.meta?.position ?? 0
PositionOf(p) == IF p.meta.has THEN p.meta.position ELSE 0

\* Mutant: p goes before the elements it compares equal to.
RECURSIVE InsertPassageUnstable(_, _)
InsertPassageUnstable(sorted, p) ==
  IF sorted = <<>> THEN <<p>>
  ELSE IF PositionOf(Head(sorted)) - PositionOf(p) >= 0
    THEN <<p>> \o sorted
    ELSE <<Head(sorted)>> \o InsertPassageUnstable(Tail(sorted), p)

\* Stable insertion: p goes after every element that does not compare
\* greater than it.
RECURSIVE InsertPassage(_, _)
InsertPassage(sorted, p) ==
  IF sorted = <<>> THEN <<p>>
  ELSE IF PositionOf(Head(sorted)) - PositionOf(p) > 0
    THEN <<p>> \o sorted
    ELSE <<Head(sorted)>> \o InsertPassage(Tail(sorted), p)

\* x.sort((a, b) => (a.meta?.position ?? 0) - (b.meta?.position ?? 0)),
\* Array.prototype.sort being stable
RECURSIVE SortPassages(_)
SortPassages(x) ==
  IF x = <<>> THEN <<>>
  ELSE InsertPassage(SortPassages(SubSeq(x, 1, Len(x) - 1)), x[Len(x)])

\* x.map((p) => p.content).join("\n")
AssembleContent(x) ==
  LET s == SortPassages(x)
  IN Join([i \in 1..Len(s) |-> s[i].content], <<NL>>)

\* ------------------------------------------------ category post-processing
RECURSIVE TrimStart(_)
TrimStart(s) ==
  IF s # <<>> /\ Head(s) \in Whitespace THEN TrimStart(Tail(s)) ELSE s

RECURSIVE TrimEnd(_)
TrimEnd(s) ==
  IF s # <<>> /\ s[Len(s)] \in Whitespace
    THEN TrimEnd(SubSeq(s, 1, Len(s) - 1)) ELSE s

\* Mutant: only the start is trimmed.
TrimStartOnly(s) == TrimStart(s)

\* String.prototype.trim
Trim(s) == TrimEnd(TrimStart(s))

\* .filter(Boolean) on strings: keeps the non-empty ones, in order
RECURSIVE FilterBoolean(_)
FilterBoolean(xs) ==
  IF xs = <<>> THEN <<>>
  ELSE IF Len(xs) = 1 THEN (IF xs[1] = <<>> THEN <<>> ELSE xs)
  ELSE LET half == Len(xs) \div 2
       IN FilterBoolean(SubSeq(xs, 1, half))
            \o FilterBoolean(SubSeq(xs, half + 1, Len(xs)))

\* categoriesAsArray.map((x) => x.name.trim()).filter(Boolean)
PostProcess(names) ==
  FilterBoolean([i \in 1..Len(names) |-> Trim(names[i])])

\* ------------------------------------------------------------------ slugs
\* .replace(/[^A-Za-z0-9]/g, "_")
ReplaceNonAlnum(x) ==
  [i \in 1..Len(x) |-> IF x[i] \in AlnumChars THEN x[i] ELSE "_"]

\* Mutant: without the g flag only the first run is collapsed.
RECURSIVE CollapseFirstRun(_)
CollapseFirstRun(x) ==
  IF Len(x) < 2 THEN x
  ELSE IF x[1] = "_" /\ x[2] = "_" THEN CollapseFirstRun(Tail(x))
  ELSE IF x[1] = "_" THEN x
  ELSE <<x[1]>> \o CollapseFirstRun(Tail(x))

\* .replace(/_+/g, "_")
RECURSIVE CollapseUnderscores(_)
CollapseUnderscores(x) ==
  IF Len(x) < 2 THEN x
  ELSE IF x[1] = "_" /\ x[2] = "_" THEN CollapseUnderscores(Tail(x))
  ELSE <<x[1]>> \o CollapseUnderscores(Tail(x))

Slug(x) == CollapseUnderscores(ReplaceNonAlnum(x))

\* categories.map((x) => [slug, x])
Labels(cats) == [i \in 1..Len(cats) |-> <<Slug(cats[i]), cats[i]>>]

\* ------------------------------------------------------------------ state
VARIABLES
  blobExists,            \* a file is stored under cacheKey
  blob,                  \* its text
  MAX_FILES_TO_PROCESS,  \* the processing cap this build was given
  fileContentCache,      \* the Map, in insertion order
  pc,                    \* where main is
  files,                 \* fetchAllContent: the collected listing
  fileCount,             \* fetchAllContent: fileCount
  newProcessedFiles,     \* fetchAllContent: newProcessedFiles
  extracted,             \* names in the answer of zai.extract
  categories,            \* what generateListOfCategories returned
  labelIdx,              \* entries of the cache labelFilesFromCategories did
  labelsToApply,         \* the answer of zai.label for the current entry
  runs,                  \* process starts so far
  restoreOutcome,        \* how restoreCache ended in this run
  startKeys,             \* keys in the cache when fetchAllContent started
  persistedAtStart,      \* keys of the blob when this process started
  fetched,               \* ids whose passages were fetched in this run
  saveAt,                \* values of newProcessedFiles at the in-loop saves
  finalSaves,            \* calls of saveCache after the loop, in this run
  savedOK,               \* uploads that succeeded in this run
  ingestDone,            \* fetchAllContent returned in this run
  labelCalls,            \* requests to zai.label in this run
  metaWrites,            \* updateFileMetadata calls done in this run
  prev,                  \* how the previous run went
  rejected,              \* the awaited call that made main reject, if any
  passages,              \* the passages filePassages(...).collect() gave
  content,               \* the text assembled from them
  name,                  \* a category name given to the slug replaces
  slugs                  \* what they gave, applied once and again

vars == << blobExists, blob, MAX_FILES_TO_PROCESS, fileContentCache, pc, files,
           fileCount, newProcessedFiles, extracted, categories, labelIdx,
           labelsToApply, runs, restoreOutcome, startKeys, persistedAtStart,
           fetched, saveAt, finalSaves, savedOK, ingestDone, labelCalls,
           metaWrites, prev, rejected, passages, content, name, slugs >>

\* the locals of the functions that are also run on their own
pureVars == << passages, content, name, slugs >>
remoteVars == << blobExists, blob >>
loopVars == << files, fileCount, newProcessedFiles >>
synthVars == << extracted, categories >>
labelVars == << labelIdx, labelsToApply, labelCalls, metaWrites >>
ingestHistory == << fetched, saveAt, finalSaves, savedOK, ingestDone >>
runVars == << MAX_FILES_TO_PROCESS, runs, restoreOutcome, startKeys,
              persistedAtStart, prev >>

Range(f) == {f[i] : i \in DOMAIN f}

\* The entries the lines of a blob text hold.
BlobEntries(b) ==
  LET parsed == {ParseLine(l) : l \in Range(Split(b))}
  IN {[key |-> r.key, content |-> r.content] : r \in {q \in parsed : q.ok}}

BlobKeys(b) == {e.key : e \in BlobEntries(b)}

Persisted == IF blobExists THEN BlobEntries(blob) ELSE {}
PersistedKeys == {e.key : e \in Persisted}

\* text of JSON that was cut off: JSON.parse throws on it
TruncatedLine == <<"{", QT, "k", "e">>

\* A blob whose second line cannot be parsed.
CorruptBlob ==
  Join(<< Stringify([key |-> DocKey(1),
                     content |-> AssembleContent(FilePassages(1))]),
          TruncatedLine,
          Stringify([key |-> DocKey(NumDocs),
                     content |-> AssembleContent(FilePassages(NumDocs))]) >>,
       <<NL>>)

Caps == {SmallCap, NumDocs}

NoPrev == [files |-> <<>>, cache |-> <<>>, ingestDone |-> FALSE,
           end |-> "none", savedOK |-> 0]

\* The state of a process that has just started, and of the stores it finds.
Init ==
  /\ \/ blobExists = FALSE /\ blob = <<>>
     \/ blobExists = TRUE /\ blob = CorruptBlob
  /\ MAX_FILES_TO_PROCESS \in Caps
  /\ fileContentCache = <<>>
  /\ pc = "restore"
  /\ files = <<>>
  /\ fileCount = 0
  /\ newProcessedFiles = 0
  /\ extracted = <<>>
  /\ categories = <<>>
  /\ labelIdx = 0
  /\ labelsToApply = {}
  /\ runs = 1
  /\ restoreOutcome = "none"
  /\ startKeys = {}
  /\ persistedAtStart = IF blobExists THEN BlobKeys(blob) ELSE {}
  /\ fetched = {}
  /\ saveAt = {}
  /\ finalSaves = 0
  /\ savedOK = 0
  /\ ingestDone = FALSE
  /\ labelCalls = <<>>
  /\ metaWrites = <<>>
  /\ prev = NoPrev
  /\ rejected = "none"
  /\ passages = <<>>
  /\ content = <<>>
  /\ name = <<>>
  /\ slugs = <<>>

\* ------------------------------------------------------------ restoreCache
\* getFile and fetch succeed; the lines are parsed until one throws.
RestoreCache ==
  /\ pc = "restore"
  /\ blobExists
  /\ LET r == RestoreLines(Split(blob), 1, fileContentCache)
     IN /\ fileContentCache' = r.cache
        /\ restoreOutcome' = IF r.threw THEN "badline" ELSE "ok"
        /\ startKeys' = CacheKeys(r.cache)
  /\ pc' = "list"
  /\ UNCHANGED << pureVars, rejected, remoteVars, loopVars, synthVars, labelVars, ingestHistory,
                  MAX_FILES_TO_PROCESS, runs, persistedAtStart, prev >>

\* getFile rejects (no such file, or the call fails) or the fetch of
\* file.url rejects: caught, nothing was set.
RestoreCacheFail ==
  /\ pc = "restore"
  /\ restoreOutcome' = IF blobExists THEN "error" ELSE "missing"
  /\ startKeys' = CacheKeys(fileContentCache)
  /\ pc' = "list"
  /\ UNCHANGED << pureVars, rejected, remoteVars, fileContentCache, loopVars, synthVars,
                  labelVars, ingestHistory, MAX_FILES_TO_PROCESS, runs,
                  persistedAtStart, prev >>

\* --------------------------------------------------------- fetchAllContent
ListFiles ==
  /\ pc = "list"
  /\ \E l \in Listings : files' = l
  /\ fileCount' = 0
  /\ newProcessedFiles' = 0
  /\ pc' = "loop"
  /\ UNCHANGED << pureVars, rejected, remoteVars, fileContentCache, synthVars, labelVars,
                  ingestHistory, runVars >>

\* The listing rejects: main rejects and the process ends.
ListFilesFail ==
  /\ pc = "list"
  /\ pc' = "failed"
  /\ rejected' = "list.files"
  /\ UNCHANGED << pureVars, remoteVars, fileContentCache, loopVars, synthVars,
                  labelVars, ingestHistory, runVars >>

\* Mutant: the cap lets one more file through.
OverCapOffByOne(n) == n > MAX_FILES_TO_PROCESS + 1

\* if (fileCount > MAX_FILES_TO_PROCESS), n being the incremented fileCount
OverCap(n) == n > MAX_FILES_TO_PROCESS

\* for (const file of files) has no further file
LoopExhausted ==
  /\ pc = "loop"
  /\ fileCount = Len(files)
  /\ pc' = "after"
  /\ UNCHANGED << pureVars, rejected, remoteVars, fileContentCache, loopVars, synthVars,
                  labelVars, ingestHistory, runVars >>

\* fileCount++; if (fileCount > MAX_FILES_TO_PROCESS) break
CapReached ==
  /\ pc = "loop"
  /\ fileCount < Len(files)
  /\ OverCap(fileCount + 1)
  /\ fileCount' = fileCount + 1
  /\ pc' = "after"
  /\ UNCHANGED << pureVars, rejected, remoteVars, fileContentCache, files, newProcessedFiles,
                  synthVars, labelVars, ingestHistory, runVars >>

\* if (fileContentCache.has(file.key)) continue
SkipCached ==
  /\ pc = "loop"
  /\ fileCount < Len(files)
  /\ ~OverCap(fileCount + 1)
  /\ CacheHas(fileContentCache, files[fileCount + 1].key)
  /\ fileCount' = fileCount + 1
  /\ UNCHANGED << pureVars, rejected, remoteVars, fileContentCache, pc, files, newProcessedFiles,
                  synthVars, labelVars, ingestHistory, runVars >>

\* Mutant: the checkpoint comes one file later each time.
CheckpointDueLate(n) == n % (CHECKPOINT_EVERY + 1) = 0

\* newProcessedFiles++ % 10 === 0
CheckpointDue(n) == n % CHECKPOINT_EVERY = 0

\* The passages arrive, are sorted and joined, the entry is set, and
\* saveCache is called when the counter says so.
ProcessFile ==
  /\ pc = "loop"
  /\ fileCount < Len(files)
  /\ ~OverCap(fileCount + 1)
  /\ LET file == files[fileCount + 1]
     IN /\ ~CacheHas(fileContentCache, file.key)
        /\ fileContentCache' =
             CacheSet(fileContentCache, file.key,
                      AssembleContent(FilePassages(file.id)))
        /\ fetched' = fetched \cup {file.id}
  /\ fileCount' = fileCount + 1
  /\ newProcessedFiles' = newProcessedFiles + 1
  /\ IF CheckpointDue(newProcessedFiles)
       THEN pc' = "save" /\ saveAt' = saveAt \cup {newProcessedFiles'}
       ELSE pc' = "loop" /\ saveAt' = saveAt
  /\ UNCHANGED << pureVars, rejected, remoteVars, files, synthVars, labelVars, finalSaves,
                  savedOK, ingestDone, runVars >>

FetchPassagesFail ==
  /\ pc = "loop"
  /\ fileCount < Len(files)
  /\ ~OverCap(fileCount + 1)
  /\ ~CacheHas(fileContentCache, files[fileCount + 1].key)
  /\ fileCount' = fileCount + 1
  /\ pc' = "failed"
  /\ rejected' = "list.filePassages"
  /\ UNCHANGED << pureVars, remoteVars, fileContentCache, files, newProcessedFiles,
                  synthVars, labelVars, ingestHistory, runVars >>

\* if (newProcessedFiles > 0) await saveCache()
AfterLoop ==
  /\ pc = "after"
  /\ IF newProcessedFiles > 0
       THEN /\ pc' = "finalsave"
            /\ finalSaves' = finalSaves + 1
            /\ ingestDone' = ingestDone
       ELSE /\ pc' = "synth"
            /\ finalSaves' = finalSaves
            /\ ingestDone' = TRUE
  /\ UNCHANGED << pureVars, rejected, remoteVars, fileContentCache, loopVars, synthVars,
                  labelVars, fetched, saveAt, savedOK, runVars >>

\* ---------------------------------------------------------------- saveCache
\* uploadFile replaces the file under cacheKey by the text of the cache.
SaveCache ==
  /\ pc \in {"save", "finalsave"}
  /\ blobExists' = TRUE
  /\ blob' = CacheFileContent(fileContentCache)
  /\ savedOK' = savedOK + 1
  /\ IF pc = "save"
       THEN pc' = "loop" /\ ingestDone' = ingestDone
       ELSE pc' = "synth" /\ ingestDone' = TRUE
  /\ UNCHANGED << pureVars, rejected, fileContentCache, loopVars, synthVars, labelVars, fetched,
                  saveAt, finalSaves, runVars >>

\* Mutant: the rejection of uploadFile is caught and the run goes on.
SaveCacheFailSwallowed ==
  /\ pc \in {"save", "finalsave"}
  /\ rejected' = "uploadFile"
  /\ IF pc = "save"
       THEN pc' = "loop" /\ ingestDone' = ingestDone
       ELSE pc' = "synth" /\ ingestDone' = TRUE
  /\ UNCHANGED << pureVars, remoteVars, fileContentCache, loopVars,
                  synthVars, labelVars, fetched, saveAt, finalSaves, savedOK,
                  runVars >>

\* uploadFile rejects: the stored file is as it was.
SaveCacheFail ==
  /\ pc \in {"save", "finalsave"}
  /\ pc' = "failed"
  /\ rejected' = "uploadFile"
  /\ UNCHANGED << pureVars, remoteVars, fileContentCache, loopVars, synthVars,
                  labelVars, ingestHistory, runVars >>

\* ------------------------------------------------- generateListOfCategories
\* Names the extraction capability is seen to return.
NameSamples ==
  { <<>>, <<SP>>, <<"A">>, <<SP, "A", TAB>>, <<"A", SP, "b">>,
    <<NL, "b", "&", SP>> }

RECURSIVE SeqsUpTo(_, _)
SeqsUpTo(S, n) ==
  IF n = 0 THEN {<<>>}
  ELSE LET shorter == SeqsUpTo(S, n - 1)
       IN shorter \cup {Append(q, x) : q \in shorter, x \in S}

\* An answer with one name more than MAX_CATEGORIES.
LongExtract == [i \in 1..(MAX_CATEGORIES + 1) |-> <<"A">>]

\* Answers of zai.extract: the capability is opaque, any list of names.
ExtractOutputs == SeqsUpTo(NameSamples, MaxNames) \cup {LongExtract}

\* The answers the whole pipeline is run with.
PipelineExtracts ==
  { <<>>, << <<SP, "A", "&">>, <<TAB>>, <<"A", "-", SP>>, <<"b">> >> }

\* Mutant: the last saveCache is not awaited, the summary is asked for
\* while the upload is under way.
GenSummarizeEarly ==
  /\ pc \in {"synth", "finalsave"}
  /\ \E out \in PipelineExtracts : extracted' = out
  /\ pc' = "extract"
  /\ UNCHANGED << pureVars, rejected, remoteVars, fileContentCache, loopVars,
                  categories, labelVars, ingestHistory, runVars >>

\* zai.summarize answers and zai.extract is called on its text.
GenSummarize ==
  /\ pc = "synth"
  /\ \E out \in PipelineExtracts : extracted' = out
  /\ pc' = "extract"
  /\ UNCHANGED << pureVars, rejected, remoteVars, fileContentCache, loopVars, categories,
                  labelVars, ingestHistory, runVars >>

SummarizeFail ==
  /\ pc = "synth"
  /\ pc' = "failed"
  /\ rejected' = "summarize"
  /\ UNCHANGED << pureVars, remoteVars, fileContentCache, loopVars, synthVars,
                  labelVars, ingestHistory, runVars >>

\* zai.extract answers; the names are trimmed and filtered and returned.
GenExtractReturn ==
  /\ pc = "extract"
  /\ categories' = PostProcess(extracted)
  /\ labelIdx' = 0
  /\ pc' = "label"
  /\ UNCHANGED << pureVars, rejected, remoteVars, fileContentCache, loopVars, extracted,
                  labelsToApply, labelCalls, metaWrites, ingestHistory,
                  runVars >>

ExtractFail ==
  /\ pc = "extract"
  /\ pc' = "failed"
  /\ rejected' = "extract"
  /\ UNCHANGED << pureVars, remoteVars, fileContentCache, loopVars, synthVars,
                  labelVars, ingestHistory, runVars >>

\* ------------------------------------------------ labelFilesFromCategories
\* Mutant: the candidates already gone through are dropped for the next
\* entry of the cache.
LabelObjectShrinking(labels) ==
  {labels[i] : i \in {j \in 1..Len(labels) : j > labelIdx}}

\* Object.fromEntries(labels): one value per slug, the last one given
LabelObject(labels) ==
  {labels[i] : i \in {j \in 1..Len(labels) :
                        \A m \in (j + 1)..Len(labels) : labels[m][1] # labels[j][1]}}

\* One entry of the cache: the candidates are built, zai.label answers with
\* some of their slugs, and the write follows when labels.length > 0.
LabelFile ==
  /\ pc = "label"
  /\ labelIdx < Len(fileContentCache)
  /\ LET entry == fileContentCache[labelIdx + 1]
         labels == Labels(categories)
         offered == LabelObject(labels)
     IN /\ \E sel \in SUBSET {c[1] : c \in offered} : labelsToApply' = sel
        /\ labelCalls' = Append(labelCalls,
                                [key |-> entry.key, content |-> entry.content,
                                 candidates |-> offered])
        /\ IF Len(labels) > 0
             THEN pc' = "write" /\ labelIdx' = labelIdx
             ELSE pc' = "label" /\ labelIdx' = labelIdx + 1
  /\ UNCHANGED << pureVars, rejected, remoteVars, fileContentCache, loopVars, synthVars,
                  metaWrites, ingestHistory, runVars >>

LabelFail ==
  /\ pc = "label"
  /\ labelIdx < Len(fileContentCache)
  /\ pc' = "failed"
  /\ rejected' = "label"
  /\ UNCHANGED << pureVars, remoteVars, fileContentCache, loopVars, synthVars,
                  labelVars, ingestHistory, runVars >>

\* Mutant: only the pairs zai.label selected are written.
UpdateFileMetadataSelected ==
  /\ pc = "write"
  /\ metaWrites' =
       Append(metaWrites,
              [id |-> fileContentCache[labelIdx + 1].key,
               categories |->
                 LET all == Labels(categories)
                     RECURSIVE Pick(_)
                     Pick(i) ==
                       IF i > Len(all) THEN <<>>
                       ELSE IF all[i][1] \in labelsToApply
                         THEN <<all[i]>> \o Pick(i + 1)
                         ELSE Pick(i + 1)
                 IN Pick(1)])
  /\ labelIdx' = labelIdx + 1
  /\ labelsToApply' = {}
  /\ pc' = "label"
  /\ UNCHANGED << pureVars, rejected, remoteVars, fileContentCache, loopVars,
                  synthVars, labelCalls, ingestHistory, runVars >>

\* client.updateFileMetadata({ id: key, metadata: { categories: labels } })
UpdateFileMetadata ==
  /\ pc = "write"
  /\ metaWrites' = Append(metaWrites,
                          [id |-> fileContentCache[labelIdx + 1].key,
                           categories |-> Labels(categories)])
  /\ labelIdx' = labelIdx + 1
  /\ labelsToApply' = {}
  /\ pc' = "label"
  /\ UNCHANGED << pureVars, rejected, remoteVars, fileContentCache, loopVars, synthVars,
                  labelCalls, ingestHistory, runVars >>

UpdateFileMetadataFail ==
  /\ pc = "write"
  /\ pc' = "failed"
  /\ rejected' = "updateFileMetadata"
  /\ UNCHANGED << pureVars, remoteVars, fileContentCache, loopVars, synthVars,
                  labelVars, ingestHistory, runVars >>

\* the for loop over the entries ends and main resolves
LabelDone ==
  /\ pc = "label"
  /\ labelIdx = Len(fileContentCache)
  /\ pc' = "done"
  /\ UNCHANGED << pureVars, rejected, remoteVars, fileContentCache, loopVars, synthVars,
                  labelVars, ingestHistory, runVars >>

\* -------------------------------------------------------------- the process
\* The process ends (main resolved or rejected, or it was killed at an
\* await) and is started again: module state is initialised anew, the
\* stores keep what they hold.
Restart ==
  /\ pc # "restore"
  /\ runs < MaxRuns
  /\ prev' = [files |-> files,
              cache |-> IF ingestDone THEN fileContentCache ELSE <<>>,
              ingestDone |-> ingestDone,
              end |-> IF pc \in {"done", "failed"} THEN pc ELSE "interrupted",
              savedOK |-> IF savedOK > 0 THEN 1 ELSE 0]
  /\ runs' = runs + 1
  /\ fileContentCache' = <<>>
  /\ pc' = "restore"
  /\ files' = <<>>
  /\ fileCount' = 0
  /\ newProcessedFiles' = 0
  /\ extracted' = <<>>
  /\ categories' = <<>>
  /\ labelIdx' = 0
  /\ labelsToApply' = {}
  /\ restoreOutcome' = "none"
  /\ startKeys' = {}
  /\ persistedAtStart' = PersistedKeys
  /\ fetched' = {}
  /\ saveAt' = {}
  /\ finalSaves' = 0
  /\ savedOK' = 0
  /\ ingestDone' = FALSE
  /\ labelCalls' = <<>>
  /\ metaWrites' = <<>>
  /\ rejected' = "none"
  /\ UNCHANGED << pureVars, remoteVars, MAX_FILES_TO_PROCESS >>

Next ==
  \/ RestoreCache
  \/ RestoreCacheFail
  \/ ListFiles
  \/ ListFilesFail
  \/ LoopExhausted
  \/ CapReached
  \/ SkipCached
  \/ ProcessFile
  \/ FetchPassagesFail
  \/ AfterLoop
  \/ SaveCache
  \/ SaveCacheFail
  \/ GenSummarize
  \/ SummarizeFail
  \/ GenExtractReturn
  \/ ExtractFail
  \/ LabelFile
  \/ LabelFail
  \/ UpdateFileMetadata
  \/ UpdateFileMetadataFail
  \/ LabelDone
  \/ Restart

Spec == Init /\ [][Next]_vars

\* ------------------------------------- generateListOfCategories on its own
\* zai.extract is about to answer with any of ExtractOutputs.
SynthInit ==
  /\ blobExists = FALSE
  /\ blob = <<>>
  /\ MAX_FILES_TO_PROCESS = NumDocs
  /\ fileContentCache = <<>>
  /\ pc = "extract"
  /\ files = <<>>
  /\ fileCount = 0
  /\ newProcessedFiles = 0
  /\ extracted \in ExtractOutputs
  /\ categories = <<>>
  /\ labelIdx = 0
  /\ labelsToApply = {}
  /\ runs = 1
  /\ restoreOutcome = "missing"
  /\ startKeys = {}
  /\ persistedAtStart = {}
  /\ fetched = {}
  /\ saveAt = {}
  /\ finalSaves = 0
  /\ savedOK = 0
  /\ ingestDone = TRUE
  /\ labelCalls = <<>>
  /\ metaWrites = <<>>
  /\ prev = NoPrev
  /\ rejected = "none"
  /\ passages = <<>>
  /\ content = <<>>
  /\ name = <<>>
  /\ slugs = <<>>

SynthNext == GenExtractReturn

SpecSynth == SynthInit /\ [][SynthNext]_vars

\* ------------------------------------------------ the functions on their own
\* Every variable of the pipeline but pc.
restVars == << remoteVars, MAX_FILES_TO_PROCESS, fileContentCache, loopVars,
               synthVars, labelVars, ingestHistory, runs, restoreOutcome,
               startKeys, persistedAtStart, prev, rejected >>

\* The pipeline's variables as a process that has done nothing holds them.
AtRest ==
  /\ blobExists = FALSE
  /\ blob = <<>>
  /\ MAX_FILES_TO_PROCESS = NumDocs
  /\ fileContentCache = <<>>
  /\ files = <<>>
  /\ fileCount = 0
  /\ newProcessedFiles = 0
  /\ extracted = <<>>
  /\ categories = <<>>
  /\ labelIdx = 0
  /\ labelsToApply = {}
  /\ runs = 1
  /\ restoreOutcome = "none"
  /\ startKeys = {}
  /\ persistedAtStart = {}
  /\ fetched = {}
  /\ saveAt = {}
  /\ finalSaves = 0
  /\ savedOK = 0
  /\ ingestDone = FALSE
  /\ labelCalls = <<>>
  /\ metaWrites = <<>>
  /\ prev = NoPrev
  /\ rejected = "none"

\* Passages a document can have: a content, and a position or none.
PassageContents == {<<"a">>, <<"b">>, <<"c">>}
PassageMetas == {NoPosition, At(-2), At(-1), At(0), At(1)}
PassageInputs ==
  SeqsUpTo({Passage(c, m) : c \in PassageContents, m \in PassageMetas},
           MaxPassages)

AssembleInit ==
  /\ AtRest
  /\ pc = "assemble"
  /\ passages \in PassageInputs
  /\ content = <<>>
  /\ name = <<>>
  /\ slugs = <<>>

\* .then(sort).then(map/join) on the collected passages
AssemblePassages ==
  /\ pc = "assemble"
  /\ content' = AssembleContent(passages)
  /\ pc' = "assembled"
  /\ UNCHANGED << restVars, passages, name, slugs >>

AssembleNext == AssemblePassages

SpecAssemble == AssembleInit /\ [][AssembleNext]_vars

\* Category names: texts over letters, digits and other characters.
NameChars == {"A", "b", "1", "_", SP, "&", "-"}
NameInputs == SeqsUpTo(NameChars, MaxNameLen)

SlugInit ==
  /\ AtRest
  /\ pc = "slug"
  /\ passages = <<>>
  /\ content = <<>>
  /\ name \in NameInputs
  /\ slugs = <<>>

\* x.replace(...).replace(...) on the name, then on its own result
Sanitize ==
  /\ pc = "slug"
  /\ slugs' = Append(slugs, Slug(IF slugs = <<>> THEN name
                                                ELSE slugs[Len(slugs)]))
  /\ pc' = IF Len(slugs') = 2 THEN "slugged" ELSE "slug"
  /\ UNCHANGED << restVars, passages, content, name >>

SlugNext == Sanitize

SpecSlug == SlugInit /\ [][SlugNext]_vars

\* ------------------------------------- saveCache, then restoreCache
\* A cache of any contents is stored by saveCache, the process ends and
\* the next one restores it.
RoundTripChars == {NL, QT, BS, "n"}
RoundTripKeys == { <<"n">>, <<"n", NL>>, <<QT>> }
RoundTripContents ==
  UNION {[1..n -> RoundTripChars] : n \in 0..MaxContentLen}

RoundTripEntries ==
  [key : RoundTripKeys, content : RoundTripContents]

\* Maps of at most MaxEntries entries, in every insertion order
CacheInputs ==
  {c \in UNION {[1..n -> RoundTripEntries] : n \in 0..MaxEntries} :
     \A i, j \in 1..Len(c) : c[i].key = c[j].key => i = j}

RoundTripInit ==
  /\ blobExists = FALSE
  /\ blob = <<>>
  /\ MAX_FILES_TO_PROCESS = NumDocs
  /\ fileContentCache \in CacheInputs
  /\ pc = "finalsave"
  /\ files = <<>>
  /\ fileCount = 0
  /\ newProcessedFiles = 1
  /\ extracted = <<>>
  /\ categories = <<>>
  /\ labelIdx = 0
  /\ labelsToApply = {}
  /\ runs = 1
  /\ restoreOutcome = "missing"
  /\ startKeys = {}
  /\ persistedAtStart = {}
  /\ fetched = {}
  /\ saveAt = {}
  /\ finalSaves = 1
  /\ savedOK = 0
  /\ ingestDone = FALSE
  /\ labelCalls = <<>>
  /\ metaWrites = <<>>
  /\ prev = NoPrev
  /\ rejected = "none"
  /\ passages = <<>>
  /\ content = <<>>
  /\ name = <<>>
  /\ slugs = <<>>

RoundTripNext ==
  \/ SaveCache
  \/ Restart
  \/ RestoreCache

SpecRoundTrip == RoundTripInit /\ [][RoundTripNext]_vars

\* ========================================================== the claims
Min(a, b) == IF a < b THEN a ELSE b

ListedKeys == {files[i].key : i \in 1..Len(files)}
Listed == pc \notin {"restore", "list"}

\* Entries set in this run, and those of them the stored blob does not hold.
AddedThisRun ==
  {fileContentCache[i] : i \in {j \in 1..Len(fileContentCache) :
       fileContentCache[j].key \in {DocKey(id) : id \in fetched}}}
Unpersisted == AddedThisRun \ Persisted

\* C1: a restart after a run that was interrupted after a successful
\* saveCache, over the same listing and having read the blob, fetches no
\* passages of a document whose key the blob held, and when its ingestion
\* is over it has newly processed a document if a listed one was not persisted.
C1_ResumeCorrectness ==
  (/\ runs > 1
   /\ prev.end = "interrupted"
   /\ prev.savedOK = 1
   /\ restoreOutcome = "ok"
   /\ Listed
   /\ files = prev.files)
  => /\ \A id \in fetched : DocKey(id) \notin persistedAtStart
     /\ (ingestDone /\ ListedKeys \ persistedAtStart # {})
          => newProcessedFiles >= 1

\* C2: when the previous run finished its ingestion, the blob was read back
\* and the listing is the same one, within the cap as a whole, this run
\* fetches no passages, processes nothing new and has the cache the
\* previous run ended with.
C2_IdempotentIngestion ==
  (/\ runs > 1
   /\ prev.ingestDone
   /\ restoreOutcome = "ok"
   /\ Listed
   /\ files = prev.files
   /\ MAX_FILES_TO_PROCESS >= Len(files))
  => /\ fetched = {}
     /\ newProcessedFiles = 0
     /\ fileContentCache = prev.cache

C2_Witness ==
  /\ runs > 1
  /\ prev.ingestDone
  /\ restoreOutcome = "ok"
  /\ files = prev.files
  /\ MAX_FILES_TO_PROCESS >= Len(files)
  /\ ingestDone
  /\ Len(fileContentCache) = NumDocs

\* C3: in every state at most CHECKPOINT_EVERY of the entries set in this
\* run are missing from the stored blob.
C3_CheckpointLossBound == Cardinality(Unpersisted) <= CHECKPOINT_EVERY

C3_Witness ==
  /\ pc = "failed"
  /\ Cardinality(Unpersisted) = CHECKPOINT_EVERY

\* C4: the in-loop saveCache is called when newProcessedFiles is 10, 20,
\* 30, ... and at no other count.
C4_CheckpointTiming ==
  /\ \A n \in saveAt : n > 0 /\ n % CHECKPOINT_EVERY = 0
  /\ \A n \in 1..newProcessedFiles :
       (n % CHECKPOINT_EVERY = 0) => n \in saveAt

\* C5: once the loop is over, saveCache has been called once more exactly
\* when a document was newly processed, and when fetchAllContent has
\* returned every entry of the cache is in the stored blob.
C5_FinalPersist ==
  /\ pc \in {"list", "loop", "save", "after"} => finalSaves = 0
  /\ (pc = "finalsave" \/ ingestDone)
       => finalSaves = (IF newProcessedFiles > 0 THEN 1 ELSE 0)
  /\ ingestDone => LET stored == Persisted
                   IN \A i \in 1..Len(fileContentCache) :
                        fileContentCache[i] \in stored

C5_Witness ==
  /\ ingestDone
  /\ finalSaves = 1
  /\ newProcessedFiles > 1
  /\ newProcessedFiles < CHECKPOINT_EVERY

\* Positions of the listing after the cap, and what this run did.
AfterCap == {i \in 1..Len(files) : i > MAX_FILES_TO_PROCESS}
Considered == IF OverCap(fileCount) THEN fileCount - 1 ELSE fileCount
WrittenIds == {metaWrites[i].id : i \in 1..Len(metaWrites)}
AddedKeys == CacheKeys(fileContentCache) \ startKeys

\* C6 as stated: the first min(M, C) listed documents are the ones
\* considered, and no document after position C has its passages fetched,
\* is added to the cache or has metadata written in this run.
C6_CapEnforcement ==
  Listed =>
    /\ Considered <= Min(Len(files), MAX_FILES_TO_PROCESS)
    /\ ingestDone => Considered = Min(Len(files), MAX_FILES_TO_PROCESS)
    /\ \A i \in AfterCap :
         /\ files[i].id \notin fetched
         /\ files[i].key \notin AddedKeys
         /\ files[i].key \notin WrittenIds

\* C6 amended: the first min(M, C) listed documents are the ones
\* considered, no document after position C has its passages fetched or is
\* added to the cache in this run, and metadata is written for it only if
\* its key was in the cache restored at the start of the run.
C6_CapEnforcementAmended ==
  Listed =>
    /\ Considered <= Min(Len(files), MAX_FILES_TO_PROCESS)
    /\ ingestDone => Considered = Min(Len(files), MAX_FILES_TO_PROCESS)
    /\ \A i \in AfterCap :
         /\ files[i].id \notin fetched
         /\ files[i].key \notin AddedKeys
         /\ files[i].key \in WrittenIds => files[i].key \in startKeys

C6_Witness ==
  /\ pc = "done"
  /\ AfterCap # {}
  /\ fetched # {}
  /\ \E i \in AfterCap : files[i].key \in WrittenIds
  /\ \E i \in AfterCap : files[i].key \notin WrittenIds

\* C7: a run that follows a finished run over the same listing, with a cap
\* below the number of documents, and that starts with a listed document
\* not in the cache, has newly processed a document when its ingestion ends.
C7_ForwardProgress ==
  (/\ runs > 1
   /\ prev.end = "done"
   /\ restoreOutcome = "ok"
   /\ Listed
   /\ files = prev.files
   /\ MAX_FILES_TO_PROCESS < Len(files)
   /\ ingestDone
   /\ ListedKeys \ startKeys # {})
  => newProcessedFiles >= 1

\* C8: when restoreCache has failed (no blob, a rejected call, a line that
\* does not parse) main goes on and the cache is empty as ingestion starts.
C8_ColdStartOnUnreadable ==
  (pc = "list" /\ restoreOutcome \in {"missing", "error", "badline"})
    => fileContentCache = <<>>

\* C9: the list generateListOfCategories returns has at most
\* MAX_CATEGORIES entries.
C9_CategoryBound ==
  pc = "label" => Len(categories) <= MAX_CATEGORIES

\* The text between the first and the last non-whitespace character.
NonBlank(s) == {i \in 1..Len(s) : s[i] \notin Whitespace}
Inner(s) ==
  IF NonBlank(s) = {} THEN <<>>
  ELSE LET lo == CHOOSE i \in NonBlank(s) : \A j \in NonBlank(s) : i <= j
           hi == CHOOSE i \in NonBlank(s) : \A j \in NonBlank(s) : j <= i
       IN SubSeq(s, lo, hi)

\* C10: the returned list is, in order and with repetitions, the inner
\* text of each extracted name that has a non-whitespace character; no
\* entry is empty.
C10_CategoryPostProcessing ==
  pc = "label" =>
    LET kept == {i \in 1..Len(extracted) : NonBlank(extracted[i]) # {}}
        nth(j) == CHOOSE i \in kept : Cardinality({m \in kept : m < i}) = j - 1
    IN /\ Len(categories) = Cardinality(kept)
       /\ \A j \in 1..Len(categories) :
            /\ categories[j] = Inner(extracted[nth(j)])
            /\ categories[j] # <<>>

C10_Witness ==
  /\ pc = "label"
  /\ Len(extracted) = 3
  /\ Len(categories) = 2
  /\ categories[1] = categories[2]
  /\ extracted[1] # categories[1]
  /\ extracted[3] = categories[2]

\* a position that is missing counts as 0
Effective(p) == IF p.meta.has THEN p.meta.position ELSE 0

\* The place passage i must take: after the passages with a smaller
\* effective position and after the earlier ones with the same.
PlaceOf(i) ==
  1 + Cardinality({j \in 1..Len(passages) :
        \/ Effective(passages[j]) < Effective(passages[i])
        \/ Effective(passages[j]) = Effective(passages[i]) /\ j < i})

\* C11: the assembled text is the contents joined by single newlines, in
\* ascending effective position, equal positions in input order.
C11_PassageAssembly ==
  pc = "assembled" =>
    IF passages = <<>> THEN content = <<>>
    ELSE LET lines == Split(content)
         IN /\ Len(lines) = Len(passages)
            /\ \A i \in 1..Len(passages) :
                 lines[PlaceOf(i)] = passages[i].content

C11_Witness ==
  /\ pc = "assembled"
  /\ Len(passages) = 3
  /\ passages[1] = Passage(<<"a">>, At(1))
  /\ passages[2] = Passage(<<"b">>, NoPosition)
  /\ passages[3] = Passage(<<"a">>, At(0))
  /\ content = <<"b", NL, "a", NL, "a">>

\* Where the passages with distinct contents landed in the text.
DistinctContents ==
  \A i, j \in 1..Len(passages) :
    i # j => passages[i].content # passages[j].content
LineOf(i) ==
  CHOOSE k \in 1..Len(passages) : Split(content)[k] = passages[i].content
Positioned == {j \in 1..Len(passages) : passages[j].meta.has}
Unpositioned == {i \in 1..Len(passages) : ~passages[i].meta.has}

\* C12 as stated: a passage without a position comes before every passage
\* whose position is not the lowest position of the document.
C12_MissingSortsLowest ==
  (pc = "assembled" /\ DistinctContents) =>
    \A i \in Unpositioned : \A j \in Positioned :
      (\E m \in Positioned :
          passages[m].meta.position < passages[j].meta.position)
        => LineOf(i) < LineOf(j)

\* C12 amended: a passage without a position sorts as position 0: after
\* the passages with a negative position, before those with a positive
\* one, and in input order with those at 0.
C12_MissingSortsAsZero ==
  (pc = "assembled" /\ DistinctContents) =>
    \A i \in Unpositioned : \A j \in Positioned :
      /\ passages[j].meta.position > 0 => LineOf(i) < LineOf(j)
      /\ passages[j].meta.position < 0 => LineOf(j) < LineOf(i)
      /\ passages[j].meta.position = 0 => (LineOf(i) < LineOf(j) <=> i < j)

C12_Witness ==
  /\ pc = "assembled"
  /\ DistinctContents
  /\ Len(passages) = 3
  /\ passages[1].meta = At(1)
  /\ passages[2].meta = NoPosition
  /\ passages[3].meta = At(-1)
  /\ LineOf(3) = 1 /\ LineOf(2) = 2 /\ LineOf(1) = 3

\* C13: the slug of a slug is that slug, and a slug holds only
\* alphanumerics and underscores no two of which are adjacent.
C13_SlugIdempotence ==
  /\ Len(slugs) = 2 => slugs[2] = slugs[1]
  /\ \A n \in 1..Len(slugs) :
       /\ \A i \in 1..Len(slugs[n]) : slugs[n][i] \in AlnumChars \cup {"_"}
       /\ \A i \in 1..(Len(slugs[n]) - 1) :
            ~(slugs[n][i] = "_" /\ slugs[n][i + 1] = "_")

C13_Witness ==
  /\ pc = "slugged"
  /\ name = <<"A", "&", SP, "b">>
  /\ slugs = << <<"A", "_", "b">>, <<"A", "_", "b">> >>

\* C14: in every request to zai.label each category of the list is the
\* value of one of the candidates.
C14_EveryCategoryOffered ==
  \A n \in 1..Len(labelCalls) : \A k \in 1..Len(categories) :
    \E c \in labelCalls[n].candidates : c[2] = categories[k]

\* C15: all requests to zai.label of a run carry the same candidates, and
\* these are pairs of a category of the list and its slug.
C15_CandidateSetDeterminism ==
  /\ \A n, m \in 1..Len(labelCalls) :
       labelCalls[n].candidates = labelCalls[m].candidates
  /\ \A n \in 1..Len(labelCalls) : \A c \in labelCalls[n].candidates :
       \E k \in 1..Len(categories) :
         c = <<Slug(categories[k]), categories[k]>>

C15_Witness ==
  /\ Len(labelCalls) >= 3
  /\ labelCalls[1].candidates # {}
  /\ labelCalls[1].content # labelCalls[2].content
  /\ labelCalls[2].content # labelCalls[3].content

\* The list of [slug, name] pairs of all the categories.
FullCandidateList ==
  [k \in 1..Len(categories) |-> <<Slug(categories[k]), categories[k]>>]

\* C16: the entries of the cache are taken in insertion order and one at a
\* time: a request for the entry, then, unless the category list is
\* empty, one write addressed by its key that carries the full candidate
\* list whatever was selected; with an empty list nothing is written.
C16_LabelingWriteBack ==
  /\ Len(labelCalls) <= Len(fileContentCache)
  /\ \A n \in 1..Len(labelCalls) :
       /\ labelCalls[n].key = fileContentCache[n].key
       /\ labelCalls[n].content = fileContentCache[n].content
  /\ categories = <<>> => metaWrites = <<>>
  /\ categories # <<>> =>
       /\ Len(metaWrites) <= Len(labelCalls)
       /\ Len(labelCalls) <= Len(metaWrites) + 1
       /\ pc = "label" => Len(metaWrites) = Len(labelCalls)
       /\ pc = "done" => Len(metaWrites) = Len(fileContentCache)
       /\ \A n \in 1..Len(metaWrites) :
            /\ metaWrites[n].id = fileContentCache[n].key
            /\ metaWrites[n].categories = FullCandidateList
  /\ pc \in {"label", "write", "done"} =>
       Len(labelCalls) = labelIdx + (IF pc = "write" THEN 1 ELSE 0)

C16_Witness ==
  /\ pc = "write"
  /\ labelsToApply = {}
  /\ Len(metaWrites) = 2
  /\ Len(labelCalls) = 3
  /\ Len(categories) = 3

\* What holds of the stages in every state of a run.
StageOrder ==
  /\ restoreOutcome = "none" =>
       files = <<>> /\ fileCount = 0 /\ fetched = {} /\ savedOK = 0
  /\ pc \in {"extract", "label", "write", "done"} => ingestDone
  /\ ingestDone => savedOK = Cardinality(saveAt) + finalSaves
  /\ ~ingestDone =>
       /\ extracted = <<>> /\ categories = <<>>
       /\ labelCalls = <<>> /\ metaWrites = <<>>
  /\ (labelCalls # <<>> \/ metaWrites # <<>>) =>
       rejected \in {"none", "label", "updateFileMetadata"}
  /\ rejected # "none" => pc = "failed"
  /\ rejected \in {"list.files", "list.filePassages", "uploadFile"} =>
       ~ingestDone
  /\ rejected \in {"summarize", "extract"} =>
       labelCalls = <<>> /\ metaWrites = <<>>

\* What holds of every step of a run: ingestion is over for good once
\* fetchAllContent has returned, the categories stand once labeling has
\* begun, and a run that failed does nothing more.
StageStep ==
  /\ pc = "failed" => runs' = runs + 1
  /\ (ingestDone /\ runs' = runs) =>
       UNCHANGED << blob, blobExists, fileContentCache, files, fileCount,
                    newProcessedFiles, fetched, saveAt, finalSaves, savedOK >>
  /\ (pc \in {"label", "write"} /\ runs' = runs) =>
       UNCHANGED << extracted, categories >>
  /\ (labelCalls' # labelCalls \/ metaWrites' # metaWrites) =>
       runs' = runs + 1 \/ pc \in {"label", "write"}

\* C17: restoreCache is over before anything is listed or fetched,
\* ingestion with its last saveCache is over before the summary is asked
\* for, the categories are returned before the first label request or
\* metadata write, and after a rejection the run does nothing more.
C17_StageOrdering == [][StageOrder /\ StageOrder' /\ StageStep]_vars

C17_Witness ==
  /\ pc = "done"
  /\ restoreOutcome = "ok"
  /\ savedOK >= 2
  /\ categories # <<>>
  /\ Len(metaWrites) = Len(fileContentCache)

\* C18: when uploadFile rejects, main rejects: the run is over with no
\* further document processed and no summary, extraction, label request
\* or metadata write, and the stored blob is the one stored before.
C18_FailedPersist ==
  [][ /\ rejected' = "uploadFile" =>
           /\ pc' = "failed"
           /\ ~ingestDone'
           /\ extracted' = <<>> /\ categories' = <<>>
           /\ labelCalls' = <<>> /\ metaWrites' = <<>>
           /\ UNCHANGED << blob, blobExists, fileContentCache, fileCount,
                           newProcessedFiles, fetched >>
      /\ rejected = "uploadFile" => runs' = runs + 1 ]_vars

C18_Witness ==
  /\ pc = "failed"
  /\ rejected = "uploadFile"
  /\ savedOK >= 1
  /\ Unpersisted # {}

\* C19: once a key is in a blob that saveCache stored, every blob stored
\* later holds that key too, in this run and in the runs after it.
C19_PersistedNeverLost ==
  [][ (blobExists /\ blob # CorruptBlob /\ blob' # blob) =>
        BlobKeys(blob) \subseteq BlobKeys(blob') ]_vars

\* C20: the cache restored from the blob that saveCache wrote is the
\* cache that was saved: the same keys with the same contents in the same
\* insertion order, and no line of the blob throws.
C20_RoundTrip ==
  (pc = "list" /\ prev.ingestDone) =>
    /\ restoreOutcome = "ok"
    /\ fileContentCache = prev.cache

C20_Witness ==
  /\ pc = "list"
  /\ prev.ingestDone
  /\ restoreOutcome = "ok"
  /\ Len(fileContentCache) = 2
  /\ \E i \in 1..2 : NL \in Range(fileContentCache[i].content)
  /\ \E i \in 1..2 : BS \in Range(fileContentCache[i].content)

====
